---- MODULE Spec2Model ----
(***************************************************************************)
(* Tippet's technique as run by the notebook "Measuring a Mutiport Device  *)
(* with a 2-Port Network Analyzer": the main cell that composes a 4-port   *)
(* from its six 2-port sub-measurements, the function tippits and the      *)
(* |Gamma| sweep that calls it.                                            *)
(*                                                                         *)
(* Scalars.  The notebook computes with complex floating point numbers.    *)
(* Every operation it applies (termination, renormalization) is a rational *)
(* function of the scattering entries, of the reflection coefficients and  *)
(* of the imaginary unit, so the model computes exactly in the prime field *)
(* GF(P), P = 1 mod 4, where Iota is a square root of -1: a complex        *)
(* rational (re + j*im)/Scale is the field element (re + Iota*im)/Scale.   *)
(* A division by zero (a singular conversion) yields NaN, and NaN          *)
(* propagates through every later operation, as in floating point.         *)
(***************************************************************************)
EXTENDS Integers, Sequences, FiniteSets, TLC

\* ------------------------------------------------------------------ bounds
NFreq == 2       \* frequency points of every network (wg.frequency.npoints)
NSeeds == 2      \* states the random generator can start the session in
NWorkers == 2    \* concurrent workers of the parallel composition

\* ------------------------------------------------------- program constants
NPorts == 4      \* n_ports of the dut
SystemZ0 == 50   \* composite.renormalize(50); also the media's port z0
NGammas == 11    \* linspace(-80, 0, 11)
NPlots == 4      \* the four plot(gammas, [er(k...) for k in gammas]) lines

\* ------------------------------------------------------------ scalar field
P == 1973
Iota == 259
Scale == 10000
NaN == -1

Freqs == 1..NFreq

FAdd(x, y) == IF x = NaN \/ y = NaN THEN NaN ELSE (x + y) % P
FSub(x, y) == IF x = NaN \/ y = NaN THEN NaN ELSE (x - y) % P
FMul(x, y) == IF x = NaN \/ y = NaN THEN NaN ELSE (x * y) % P

RECURSIVE FPow(_, _)
FPow(x, k) ==
  IF k = 0 THEN 1
  ELSE LET h == FPow(x, k \div 2)
           q == (h * h) % P
       IN  IF k % 2 = 1 THEN (q * x) % P ELSE q

\* 1/x; 1/0 is NaN
FInv(x) == IF x = NaN \/ x = 0 THEN NaN ELSE FPow(x, P - 2)
FDiv(x, y) == FMul(x, FInv(y))

\* the field element of the complex number (g[1] + j*g[2]) / Scale
ToField(g) == FMul((g[1] + Iota * g[2]) % P, FInv(Scale % P))

\* ---------------------------------------------------------------- matrices
\* A matrix is a function [0..n-1 -> [0..n-1 -> scalar]].
\* Materialize(M) is M, evaluated once to an explicit value.
Materialize(M) == IF M = M THEN M ELSE M

Idx(n) == 0..(n - 1)

Minor(M, n, r, c) ==
  [i \in Idx(n - 1) |-> [j \in Idx(n - 1) |->
      M[IF i < r THEN i ELSE i + 1][IF j < c THEN j ELSE j + 1]]]

RECURSIVE Det(_, _)
Det(M, n) ==
  IF n = 1 THEN M[0][0]
  ELSE LET term(j) == FMul(M[0][j], Det(Minor(M, n, 0, j), n - 1))
           RECURSIVE acc(_)
           acc(j) == IF j < 0 THEN 0
                     ELSE IF j % 2 = 0 THEN FAdd(acc(j - 1), term(j))
                                       ELSE FSub(acc(j - 1), term(j))
       IN  acc(n - 1)

Cof(M, n, i, j) ==
  LET v == IF n = 1 THEN 1 ELSE Det(Minor(M, n, i, j), n - 1)
  IN  IF (i + j) % 2 = 0 THEN v ELSE FSub(0, v)

\* inverse by the adjugate; a singular matrix inverts to all-NaN
MInv(M, n) ==
  LET d == FInv(Det(M, n))
  IN  Materialize([i \in Idx(n) |-> [j \in Idx(n) |-> FMul(Cof(M, n, j, i), d)]])

RECURSIVE Dot(_, _, _, _, _)
Dot(A, B, i, j, k) ==
  IF k < 0 THEN 0 ELSE FAdd(Dot(A, B, i, j, k - 1), FMul(A[i][k], B[k][j]))

MMul(A, B, n) == Materialize([i \in Idx(n) |-> [j \in Idx(n) |-> Dot(A, B, i, j, n - 1)]])
MAdd(A, B, n) == Materialize([i \in Idx(n) |-> [j \in Idx(n) |-> FAdd(A[i][j], B[i][j])]])
MSub(A, B, n) == Materialize([i \in Idx(n) |-> [j \in Idx(n) |-> FSub(A[i][j], B[i][j])]])
Id(n) == [i \in Idx(n) |-> [j \in Idx(n) |-> IF i = j THEN 1 ELSE 0]]
Diag(v, n) == [i \in Idx(n) |-> [j \in Idx(n) |-> IF i = j THEN v[i] ELSE 0]]

\* --------------------------------------- Network representation (spec 4.1)
\* scattering -> impedance parameters at one frequency, referenced to z0:
\*   Z = (I + S) (I - S)^-1 diag(z0)
s2z(S, z0, n) ==
  MMul(MMul(MAdd(Id(n), S, n), MInv(MSub(Id(n), S, n), n), n), Diag(z0, n), n)

\* impedance -> scattering parameters at one frequency, referenced to z0:
\*   S = (Z diag(z0)^-1 - I) (Z diag(z0)^-1 + I)^-1
z2s(Z, z0, n) ==
  LET Y == MMul(Z, Diag([i \in Idx(n) |-> FInv(z0[i])], n), n)
  IN  MMul(MSub(Y, Id(n), n), MInv(MAdd(Y, Id(n), n), n), n)

\* A Network value:
\*   nports, s[f][i][j], z0[f][i]        the data of the Network
\*   orig[i]   the port of the dut that port i of this network is
\*   term      the set of <<dut port, load id>> terminations made so far
\* A load also carries gamma (the reflection coefficient it was built from,
\* as <<re, im>> over Scale) and id (its position in the list of loads).

\* a scalar z0 broadcast to the shape F x n
fix_z0_shape(z, n) == [f \in Freqs |-> [i \in Idx(n) |-> z % P]]

\* wg.match(nports = n): the reflectionless n-port
match(n) ==
  [nports |-> n,
   s      |-> [f \in Freqs |-> [i \in Idx(n) |-> [j \in Idx(n) |-> 0]]],
   z0     |-> fix_z0_shape(SystemZ0, n),
   orig   |-> [i \in Idx(n) |-> i],
   term   |-> {}]

\* wg.random(n_ports = n) drawn with the generator in state r
RandomEntry(r, f, i, j) ==
  LET b == (7 * r + 3 * f + 5 * i + 11 * j + 2 * i * j + r * f * (i + 1) + 1) % P
  IN  (((((b * b) % P) * b) % P) + r * (j + 2)) % P

random(n, r) ==
  [nports |-> n,
   s      |-> [f \in Freqs |-> [i \in Idx(n) |-> [j \in Idx(n) |-> RandomEntry(r, f, i, j)]]],
   z0     |-> fix_z0_shape(SystemZ0, n),
   orig   |-> [i \in Idx(n) |-> i],
   term   |-> {}]

\* wg.load(gamma): the 1-port with reflection coefficient gamma at every
\* frequency, referenced to the media's port impedance
load(gamma, k) ==
  [nports |-> 1,
   s      |-> [f \in Freqs |-> [i \in Idx(1) |-> [j \in Idx(1) |-> ToField(gamma)]]],
   z0     |-> fix_z0_shape(SystemZ0, 1),
   orig   |-> [i \in Idx(1) |-> k],
   term   |-> {},
   gamma  |-> gamma,
   id     |-> k]

\* Network.z: the impedance parameters at every frequency
NetworkZ(ntwk) == [f \in Freqs |-> s2z(ntwk.s[f], ntwk.z0[f], ntwk.nports)]

\* ------------------------------------------------------ Connector (spec 4.2)
\* rf.connect(ntwkA, k, ntwkB, 0) with ntwkB a 1-port: port k of ntwkA is
\* terminated by ntwkB; the joined port is deleted, the others keep their order.
connect(ntwkA, k, ntwkB, l) ==
  LET n == ntwkA.nports
      keep == [i \in Idx(n - 1) |-> IF i < k THEN i ELSE i + 1]
      z0r == [f \in Freqs |-> [i \in Idx(n - 1) |-> ntwkA.z0[f][keep[i]]]]
      Sr(f) ==
        LET Z == s2z(ntwkA.s[f], ntwkA.z0[f], n)
            zl == s2z(ntwkB.s[f], ntwkB.z0[f], 1)[l][l]
            den == FAdd(Z[k][k], zl)
            Zr == Materialize([i \in Idx(n - 1) |-> [j \in Idx(n - 1) |->
                     FSub(Z[keep[i]][keep[j]],
                          FDiv(FMul(Z[keep[i]][k], Z[k][keep[j]]), den))]])
        IN  z2s(Zr, z0r[f], n - 1)
  IN  [nports |-> n - 1,
       s      |-> [f \in Freqs |-> Sr(f)],
       z0     |-> z0r,
       orig   |-> [i \in Idx(n - 1) |-> ntwkA.orig[keep[i]]],
       term   |-> ntwkA.term \cup {<<ntwkA.orig[k], ntwkB.id>>}]

\* connect raises when a port index is out of range
ConnectRaises(ntwkA, k, ntwkB, l) ==
  ~ (k \in Idx(ntwkA.nports) /\ l \in Idx(ntwkB.nports))

\* --------------------------------------------------- Renormalizer (spec 4.3)
\* Network.renormalize(z_new): s through the impedance parameters at the
\* current z0 to the scattering parameters at z_new; z0 becomes z_new
renormalize(ntwk, z_new) ==
  [ntwk EXCEPT
     !.s  = [f \in Freqs |->
               z2s(s2z(ntwk.s[f], ntwk.z0[f], ntwk.nports), z_new[f], ntwk.nports)],
     !.z0 = z_new]

\* --------------------------------------------------------- Noise injector
\* Network.add_noise_polar(mag_dev, phase_dev) drawn with the generator in
\* state r: every scattering entry is moved by a nonzero amount
NoiseEntry(r, f, i, j) == 1 + ((r + 3 * f + 5 * i + 7 * j) % 3)

add_noise_polar(ntwk, r) ==
  [ntwk EXCEPT
     !.s = [f \in Freqs |-> [i \in Idx(ntwk.nports) |-> [j \in Idx(ntwk.nports) |->
              FAdd(ntwk.s[f][i][j], NoiseEntry(r, f, i, j))]]]]

\* the random generator after one draw
NextRandom(r) == (r * 5 + 3) % 64


\* ------------------------------------------------------------------ state
VARIABLES
  pc,               \* the statement the notebook session executes next
  rng,              \* state of the random number generator
  glob,             \* the notebook's global names
  loc,              \* the local names of the running call of tippits
  measured,         \* the global dict measured: key -> Network object
  measured_renorm,  \* the global dict measured_renorm: key -> Network object
  heap,             \* the Network objects that are mutated in place, by reference
  sweep,            \* position of the list comprehensions [er(k) for k in gammas]
  visited,          \* history: the pairs the loop of the running composition has
                    \* taken so far, in the order it took them
  wlog,             \* history: how often each pair wrote each cell of the running
                    \* composition's composite, [pair, cell] -> number of writes
  inflight          \* the per-pair steps in progress on the concurrent workers

vars == <<pc, rng, glob, loc, measured, measured_renorm, heap, sweep, visited,
          wlog, inflight>>

Null == 0
Unbound == -1
NoNet == [nports |-> 0, s |-> <<>>, z0 |-> <<>>, orig |-> <<>>, term |-> {}]

\* a namespace in which none of the loop's names is bound yet
Names(active, dut, gamma, noise) ==
  [active |-> active, dut |-> dut, gamma |-> gamma, noise |-> noise,
   loads |-> <<>>, z_loads |-> <<>>, ports |-> <<>>, port_combos |-> <<>>,
   it |-> 0, a |-> Unbound, b |-> Unbound, c |-> Unbound, d |-> Unbound,
   e |-> Unbound, three_port |-> NoNet, two_port |-> Null, composite |-> Null]

NoFrame == Names(FALSE, NoNet, <<0, 0>>, FALSE)

\* the namespace the running statement binds its names in
Cur == IF loc.active THEN loc ELSE glob

\* the state a statement works on, and the state it leaves
Machine(ns) ==
  [ns |-> ns, heap |-> heap, measured |-> measured,
   measured_renorm |-> measured_renorm, visited |-> visited, wlog |-> wlog,
   rng |-> rng, exc |-> FALSE]

Raise(m) == [m EXCEPT !.exc = TRUE]

\* ------------------------------------------------------------ the heap
\* A new object's reference is the first free one of the references kept for
\* the statement that creates it (site) and the pair it works on.
RefStride == 64
SiteComposite == 1
SiteTwoPort(a, b) == 2 + 3 * (NPorts * a + b)
SiteRaw(a, b) == 3 + 3 * (NPorts * a + b)
SiteRenorm(a, b) == 4 + 3 * (NPorts * a + b)

NewRef(h, site) ==
  LET free == {r \in {site + RefStride * q : q \in 0..Cardinality(DOMAIN h)} :
                 r \notin DOMAIN h}
  IN  CHOOSE r \in free : \A q \in free : r <= q

\* Network.copy(): a new object with the same value
copy(m, ref, site) ==
  LET r == NewRef(m.heap, site)
  IN  [heap |-> (r :> m.heap[ref]) @@ m.heap, ref |-> r]

Range(f) == {f[x] : x \in DOMAIN f}

\* the objects some name still refers to
Live(g, l, ms, mr, fl) ==
  ({g.two_port, g.composite, l.two_port, l.composite}
     \cup Range(ms) \cup Range(mr) \cup {w.ns.two_port : w \in fl}) \ {Null}

\* one more write of the pair to the cell
Logged(wl, pair, cell) ==
  LET ev == [pair |-> pair, cell |-> cell]
  IN  IF ev \in DOMAIN wl THEN [wl EXCEPT ![ev] = @ + 1] ELSE (ev :> 1) @@ wl

Collect(h, live) == [r \in (DOMAIN h) \cap live |-> h[r]]

\* ------------------------------------------------- the notebook's statements
\* Each statement is a function of the state it works on (Machine).

\* the reflection coefficients of the main cell's loads: .1+.1j, .2-.2j, .3+.3j, .5
MainGammas ==
  [k \in Idx(NPorts) |->
     CASE k = 0 -> <<1000, 1000>>
       [] k = 1 -> <<2000, -2000>>
       [] k = 2 -> <<3000, 3000>>
       [] k = 3 -> <<5000, 0>>]

\* gammas = linspace(-80, 0, 11), in dB
gammas == [k \in 1..NGammas |-> -80 + ((k - 1) * 80) \div (NGammas - 1)]

\* rf.db_2_mag(db) = 10 ** (db / 20), rounded to a multiple of 1/Scale
db_2_mag(db) ==
  CASE db = -80 -> 1      [] db = -72 -> 3      [] db = -64 -> 6
    [] db = -56 -> 16     [] db = -48 -> 40     [] db = -40 -> 100
    [] db = -32 -> 251    [] db = -24 -> 631    [] db = -16 -> 1585
    [] db = -8  -> 3981   [] db = 0   -> 10000

\* |gamma| = 1
FullyReflective(gamma) == gamma[1] * gamma[1] + gamma[2] * gamma[2] = Scale * Scale
\* |gamma| < 1
Lossy(gamma) == gamma[1] * gamma[1] + gamma[2] * gamma[2] < Scale * Scale

\* ports = arange(dut.nports)
arange(n) == [i \in 1..n |-> i - 1]

\* itertools.combinations(seq, 2): the pairs of elements at positions i < j,
\* in lexicographic order of the positions
RECURSIVE CombosFrom(_, _, _)
CombosFrom(seq, i, j) ==
  IF i > Len(seq) - 1 THEN <<>>
  ELSE IF j > Len(seq) THEN CombosFrom(seq, i + 1, i + 2)
  ELSE <<<<seq[i], seq[j]>>>> \o CombosFrom(seq, i, j + 1)

\* mutant of combinations: the first element is also paired with itself
combinationsFromSelf(seq) == CombosFrom(seq, 1, 1)

combinations(seq) == CombosFrom(seq, 1, 2)

\* ports = arange(dut.nports); port_combos = list(combinations(ports, 2))
PortCombos(m) ==
  LET ports == arange(m.ns.dut.nports)
  IN  [m EXCEPT !.ns.ports = ports, !.ns.port_combos = combinations(ports)]

\* loads = [wg.load(.1+.1j), ...] in the main cell,
\* loads = [wg.load(gamma) for k in ports] in tippits
Loads(ns) ==
  IF ns.active THEN [k \in Idx(Len(ns.ports)) |-> load(ns.gamma, k)]
  ELSE [k \in Idx(NPorts) |-> load(MainGammas[k], k)]

\* z_loads = array([k.z.flatten() for k in loads]).T, of shape F x N
ZLoads(loads) ==
  [f \in Freqs |-> [k \in DOMAIN loads |-> NetworkZ(loads[k])[f][0][0]]]

DefineLoads(m) ==
  LET loads == Loads(m.ns)
  IN  [m EXCEPT !.ns.loads = loads, !.ns.z_loads = ZLoads(loads)]

\* a load's impedance is undefined: its conversion is singular
SingularLoads(m) ==
  \E f \in Freqs : \E k \in DOMAIN m.ns.z_loads[f] : m.ns.z_loads[f][k] = NaN

\* composite = wg.match(nports = 4); in the main cell also
\* measured, measured_renorm = {}, {}   (commented out in tippits)
StartComposite(m) ==
  LET r == NewRef(m.heap, SiteComposite)
      n == IF m.ns.active THEN m.ns.dut.nports ELSE NPorts
      m1 == [m EXCEPT !.heap = (r :> match(n)) @@ m.heap, !.ns.composite = r,
                      !.visited = <<>>, !.wlog = <<>>]
  IN  IF m.ns.active THEN m1
      ELSE [m1 EXCEPT !.measured = <<>>, !.measured_renorm = <<>>]

\* for a, b in port_combos: the next pair of the iteration
ForNext(m) ==
  LET ab == m.ns.port_combos[m.ns.it + 1]
  IN  [m EXCEPT !.ns.it = m.ns.it + 1, !.ns.a = ab[1], !.ns.b = ab[2],
                !.visited = Append(m.visited, ab)]

Exhausted(m) == m.ns.it >= Len(m.ns.port_combos)

\* c, d = ports[(ports != a) & (ports != b)]
SelectLoadPorts(m) ==
  LET rest == SelectSeq(m.ns.ports, LAMBDA q : q # m.ns.a /\ q # m.ns.b)
  IN  IF Len(rest) # 2 THEN Raise(m)
      ELSE [m EXCEPT !.ns.c = rest[1], !.ns.d = rest[2]]

\* mutant of WhereD: the position of d among all the ports, c not deleted
WhereDNoRenumber(ports, c, d) ==
  {i - 1 : i \in {k \in 1..Len(ports) : ports[k] = d}}

\* e = where(ports[ports != c] == d)[0][0]
WhereD(ports, c, d) ==
  LET sub == SelectSeq(ports, LAMBDA q : q # c)
  IN  {i - 1 : i \in {k \in 1..Len(sub) : sub[k] = d}}

LocateD(m) ==
  LET hits == WhereD(m.ns.ports, m.ns.c, m.ns.d)
  IN  IF hits = {} THEN Raise(m)
      ELSE [m EXCEPT !.ns.e = CHOOSE i \in hits : \A k \in hits : i <= k]

\* three_port = rf.connect(dut, c, loads[c], 0)
ConnectC(m) ==
  LET ns == m.ns
  IN  IF ConnectRaises(ns.dut, ns.c, ns.loads[ns.c], 0) THEN Raise(m)
      ELSE [m EXCEPT !.ns.three_port = connect(ns.dut, ns.c, ns.loads[ns.c], 0)]

\* mutant of ConnectD: the second termination is made with the load of port c
ConnectDWithLoadC(m) ==
  LET ns == m.ns
      r == NewRef(m.heap, SiteTwoPort(ns.a, ns.b))
  IN  IF ConnectRaises(ns.three_port, ns.e, ns.loads[ns.c], 0) THEN Raise(m)
      ELSE [m EXCEPT !.heap = (r :> connect(ns.three_port, ns.e, ns.loads[ns.c], 0))
                                @@ m.heap,
                     !.ns.two_port = r]

\* two_port = rf.connect(three_port, e, loads[d], 0)
ConnectD(m) ==
  LET ns == m.ns
      r == NewRef(m.heap, SiteTwoPort(ns.a, ns.b))
  IN  IF ConnectRaises(ns.three_port, ns.e, ns.loads[ns.d], 0) THEN Raise(m)
      ELSE [m EXCEPT !.heap = (r :> connect(ns.three_port, ns.e, ns.loads[ns.d], 0))
                                @@ m.heap,
                     !.ns.two_port = r]

\* if noise is not None: two_port.add_noise_polar(*noise)
AddNoise(m) ==
  IF m.ns.noise
  THEN [m EXCEPT !.heap[m.ns.two_port] = add_noise_polar(m.heap[m.ns.two_port], m.rng),
                 !.rng = NextRandom(m.rng)]
  ELSE m

\* '%i%i' % (a, b)
Digit(k) == CASE k = 0 -> "0" [] k = 1 -> "1" [] k = 2 -> "2" [] k = 3 -> "3"
              [] k = 4 -> "4" [] k = 5 -> "5" [] k = 6 -> "6" [] k = 7 -> "7"
              [] k = 8 -> "8" [] k = 9 -> "9"
Key(a, b) == Digit(a) \o Digit(b)

\* mutant of StoreRaw: the 2-port itself is stored, not a copy of it
StoreRawAlias(m) ==
  [m EXCEPT !.measured = (Key(m.ns.a, m.ns.b) :> m.ns.two_port) @@ m.measured]

\* measured['%i%i'%(a,b)] = two_port.copy()
StoreRaw(m) ==
  LET cp == copy(m, m.ns.two_port, SiteRaw(m.ns.a, m.ns.b))
  IN  [m EXCEPT !.heap = cp.heap,
                !.measured = (Key(m.ns.a, m.ns.b) :> cp.ref) @@ m.measured]

\* mutant of RenormTarget: the impedances of loads b and a, in that order
RenormTargetSwapped(ns) ==
  [f \in Freqs |-> [i \in Idx(2) |-> IF i = 0 THEN ns.z_loads[f][ns.b]
                                              ELSE ns.z_loads[f][ns.a]]]

\* c_[z_loads[:,a], z_loads[:,b]]
RenormTarget(ns) ==
  [f \in Freqs |-> [i \in Idx(2) |-> IF i = 0 THEN ns.z_loads[f][ns.a]
                                              ELSE ns.z_loads[f][ns.b]]]

\* two_port.renormalize(c_[z_loads[:,a], z_loads[:,b]])
RenormalizeTwoPort(m) ==
  [m EXCEPT !.heap[m.ns.two_port] =
              renormalize(m.heap[m.ns.two_port], RenormTarget(m.ns))]

\* measured_renorm['%i%i'%(a,b)] = two_port.copy()
StoreRenorm(m) ==
  LET cp == copy(m, m.ns.two_port, SiteRenorm(m.ns.a, m.ns.b))
  IN  [m EXCEPT !.heap = cp.heap,
                !.measured_renorm = (Key(m.ns.a, m.ns.b) :> cp.ref) @@ m.measured_renorm]

\* mutant of StuffAssignments: composite.s[:,i,j] = two_port.s[:,i,j]
StuffAssignmentsUnmapped(a, b) ==
  [k \in 1..4 |-> <<(k - 1) \div 2, (k - 1) % 2, (k - 1) \div 2, (k - 1) % 2>>]

\* mutant of StuffAssignments: composite.s[:,m,m] = two_port.s[:,i,j]
StuffAssignmentsDiagonal(a, b) ==
  LET ab == [i \in Idx(2) |-> IF i = 0 THEN a ELSE b]
  IN  [k \in 1..4 |-> <<ab[(k - 1) \div 2], ab[(k - 1) \div 2], (k - 1) \div 2, (k - 1) % 2>>]

\* for i,m in enumerate([a,b]): for j,n in enumerate([a,b]): the assignments
\* composite.s[:,m,n] = two_port.s[:,i,j] in the order they are made,
\* each as <<m, n, i, j>>
StuffAssignments(a, b) ==
  LET ab == [i \in Idx(2) |-> IF i = 0 THEN a ELSE b]
  IN  [k \in 1..4 |-> <<ab[(k - 1) \div 2], ab[(k - 1) % 2], (k - 1) \div 2, (k - 1) % 2>>]

RECURSIVE StuffFrom(_, _, _)
StuffFrom(m, asg, k) ==
  IF k > Len(asg) THEN m
  ELSE LET w == asg[k]
           tp == m.heap[m.ns.two_port]
           co == m.heap[m.ns.composite]
           s2 == [f \in Freqs |-> [co.s[f] EXCEPT ![w[1]][w[2]] = tp.s[f][w[3]][w[4]]]]
       IN  StuffFrom([m EXCEPT !.heap[m.ns.composite].s = s2,
                               !.wlog = Logged(m.wlog, <<m.ns.a, m.ns.b>>,
                                               <<"s", w[1], w[2]>>)],
                     asg, k + 1)

StuffS(m) == StuffFrom(m, StuffAssignments(m.ns.a, m.ns.b), 1)

\* mutant of Z0Assignments: only composite.z0[:,a] = two_port.z0[:,0]
Z0AssignmentsFirstOnly(a, b) == <<<<a, 0>>>>

\* composite.z0[:,a] = two_port.z0[:,0]; composite.z0[:,b] = two_port.z0[:,1]
\* as <<slot of composite.z0, port of two_port>>
Z0Assignments(a, b) == <<<<a, 0>>, <<b, 1>>>>

RECURSIVE CopyFrom(_, _, _)
CopyFrom(m, asg, k) ==
  IF k > Len(asg) THEN m
  ELSE LET w == asg[k]
           tp == m.heap[m.ns.two_port]
           co == m.heap[m.ns.composite]
           z2 == [f \in Freqs |-> [co.z0[f] EXCEPT ![w[1]] = tp.z0[f][w[2]]]]
       IN  CopyFrom([m EXCEPT !.heap[m.ns.composite].z0 = z2,
                              !.wlog = Logged(m.wlog, <<m.ns.a, m.ns.b>>,
                                              <<"z0", w[1], w[1]>>)],
                    asg, k + 1)

CopyZ0(m) == CopyFrom(m, Z0Assignments(m.ns.a, m.ns.b), 1)

\* composite.renormalize(50)
FinalRenormalize(m) ==
  LET co == m.heap[m.ns.composite]
  IN  [m EXCEPT !.heap[m.ns.composite] =
                  renormalize(co, fix_z0_shape(SystemZ0, co.nports))]

\* --------------------------------------------------- the notebook session
\* the state after dut = wg.random(n_ports = 4, name = 'dut')
Init ==
  \E r0 \in 1..NSeeds :
    /\ pc = "loads"
    /\ rng = NextRandom(r0)
    /\ glob = Names(FALSE, random(NPorts, r0), <<0, 0>>, FALSE)
    /\ loc = NoFrame
    /\ measured = <<>>
    /\ measured_renorm = <<>>
    /\ heap = <<>>
    /\ sweep = [plot |-> 0, k |-> 0]
    /\ visited = <<>>
    /\ wlog = <<>>
    /\ inflight = {}

\* the statement's effect m becomes the state; a raised exception ends the
\* running cell and leaves the names as they were
Commit(m, to) ==
  LET g == IF loc.active \/ m.exc THEN glob ELSE m.ns
      l == IF loc.active /\ ~ m.exc THEN m.ns ELSE loc
  IN  /\ pc' = IF m.exc THEN "failed" ELSE to
      /\ glob' = g
      /\ loc' = l
      /\ measured' = m.measured
      /\ measured_renorm' = m.measured_renorm
      /\ rng' = m.rng
      /\ visited' = m.visited
      /\ wlog' = m.wlog
      /\ heap' = Collect(m.heap, Live(g, l, m.measured, m.measured_renorm, inflight))
      /\ UNCHANGED <<sweep, inflight>>

DefineLoadsStep ==
  /\ pc = "loads"
  /\ Commit(DefineLoads(Machine(Cur)), IF loc.active THEN "composite" ELSE "ports")

\* a singular load impedance either propagates as NaN (DefineLoadsStep) or
\* is raised as an error
DefineLoadsFails ==
  /\ pc = "loads"
  /\ SingularLoads(DefineLoads(Machine(Cur)))
  /\ Commit(Raise(Machine(Cur)), "failed")

PortCombosStep ==
  /\ pc = "ports"
  /\ Commit(PortCombos(Machine(Cur)), IF loc.active THEN "loads" ELSE "composite")

StartCompositeStep ==
  /\ pc = "composite"
  /\ Commit(StartComposite(Machine(Cur)), "for")

ForStep ==
  /\ pc = "for"
  /\ inflight = {}
  /\ IF Exhausted(Machine(Cur))
     THEN Commit(Machine(Cur), "final")
     ELSE Commit(ForNext(Machine(Cur)), "sel")

SelectLoadPortsStep == pc = "sel" /\ Commit(SelectLoadPorts(Machine(Cur)), "locate")

LocateDStep == pc = "locate" /\ Commit(LocateD(Machine(Cur)), "connect_c")

ConnectCStep == pc = "connect_c" /\ Commit(ConnectC(Machine(Cur)), "connect_d")

ConnectDStep ==
  /\ pc = "connect_d"
  /\ Commit(ConnectD(Machine(Cur)), IF loc.active THEN "noise" ELSE "store_raw")

AddNoiseStep == pc = "noise" /\ Commit(AddNoise(Machine(Cur)), "store_raw")

StoreRawStep == pc = "store_raw" /\ Commit(StoreRaw(Machine(Cur)), "renorm")

RenormalizeStep == pc = "renorm" /\ Commit(RenormalizeTwoPort(Machine(Cur)), "store_renorm")

StoreRenormStep == pc = "store_renorm" /\ Commit(StoreRenorm(Machine(Cur)), "stuff")

StuffSStep == pc = "stuff" /\ Commit(StuffS(Machine(Cur)), "copy_z0")

CopyZ0Step == pc = "copy_z0" /\ Commit(CopyZ0(Machine(Cur)), "for")

FinalRenormalizeStep ==
  /\ pc = "final"
  /\ Commit(FinalRenormalize(Machine(Cur)), IF loc.active THEN "return" ELSE "compare")

\* the cells that read the result: measured_renorm, the S11 plots, composite == dut
CompareStep == pc = "compare" /\ Commit(Machine(Cur), "sweep_setup")

\* wg.frequency.npoints = 11; dut = wg.random(4); gammas = linspace(-80, 0, 11)
SweepSetupStep ==
  /\ pc = "sweep_setup"
  /\ pc' = "er"
  /\ glob' = [glob EXCEPT !.dut = random(NPorts, rng)]
  /\ rng' = NextRandom(rng)
  /\ sweep' = [plot |-> 1, k |-> 1]
  /\ UNCHANGED <<loc, measured, measured_renorm, heap, visited, wlog, inflight>>

\* noise = (1e-5, .1) is passed by the third and fourth plot line only
PlotNoise(plot) == plot > NPlots \div 2

\* er(gamma, *args): tippits(dut, rf.db_2_mag(gamma), *args) is called
tippits(dut, gamma, noise) == Names(TRUE, dut, gamma, noise)

ErCallStep ==
  /\ pc = "er"
  /\ pc' = "ports"
  /\ loc' = tippits(glob.dut, <<db_2_mag(gammas[sweep.k]), 0>>, PlotNoise(sweep.plot))
  /\ UNCHANGED <<rng, glob, measured, measured_renorm, heap, sweep, visited, wlog,
                 inflight>>

\* return composite; er reduces it to the plotted error, the locals are dropped
ReturnStep ==
  /\ pc = "return"
  /\ loc' = NoFrame
  /\ heap' = Collect(heap, Live(glob, NoFrame, measured, measured_renorm, inflight))
  /\ IF sweep.k < NGammas
     THEN pc' = "er" /\ sweep' = [sweep EXCEPT !.k = sweep.k + 1]
     ELSE IF sweep.plot < NPlots
     THEN pc' = "er" /\ sweep' = [plot |-> sweep.plot + 1, k |-> 1]
     ELSE pc' = "done" /\ sweep' = sweep
  /\ UNCHANGED <<rng, glob, measured, measured_renorm, visited, wlog, inflight>>

Next ==
  \/ DefineLoadsStep
  \/ DefineLoadsFails
  \/ PortCombosStep
  \/ StartCompositeStep
  \/ ForStep
  \/ SelectLoadPortsStep
  \/ LocateDStep
  \/ ConnectCStep
  \/ ConnectDStep
  \/ AddNoiseStep
  \/ StoreRawStep
  \/ RenormalizeStep
  \/ StoreRenormStep
  \/ StuffSStep
  \/ CopyZ0Step
  \/ FinalRenormalizeStep
  \/ CompareStep
  \/ SweepSetupStep
  \/ ErCallStep
  \/ ReturnStep

Spec == Init /\ [][Next]_vars

\* -------------------------------------------- the composition run in parallel
\* Spec section 5: the per-pair steps of the main cell's loop are partitioned
\* by pair among NWorkers concurrent workers, which take the pairs in any
\* order; the final renormalization waits for all of them (the barrier).
\* A worker is the copy of the names it works with and its position.

\* the pairs in progress on a worker, and the pairs whose step is complete
InProgress == {<<w.ns.a, w.ns.b>> : w \in inflight}
Complete == {ev.pair : ev \in DOMAIN wlog}
Taken == InProgress \cup Complete
Todo == {glob.port_combos[i] : i \in 1..Len(glob.port_combos)} \ Taken

\* the worker w leaves the state m and goes on at the position to, or is
\* free again ("free")
CommitWorker(m, w, to) ==
  LET fl == (inflight \ {w})
              \cup (IF to = "free" THEN {} ELSE {[ns |-> m.ns, pc |-> to]})
  IN  /\ inflight' = fl
      /\ measured' = m.measured
      /\ measured_renorm' = m.measured_renorm
      /\ wlog' = m.wlog
      /\ heap' = Collect(m.heap, Live(glob, loc, m.measured, m.measured_renorm, fl))
      /\ UNCHANGED <<pc, rng, glob, loc, sweep, visited>>

\* a free worker takes a pair that no worker has taken
TakePair ==
  /\ pc = "for"
  /\ Cardinality(inflight) < NWorkers
  /\ \E ab \in Todo :
       inflight' = inflight \cup {[ns |-> [glob EXCEPT !.a = ab[1], !.b = ab[2]],
                                   pc |-> "measure"]}
  /\ UNCHANGED <<pc, rng, glob, loc, measured, measured_renorm, heap, sweep, visited,
                 wlog>>

\* the sub-measurement of the worker's pair: the loop body up to
\* measured_renorm[...] = two_port.copy()
\* the statement Stmt executed in the state m that the one before it left
Then(m, Stmt(_)) == IF m = m THEN Stmt(m) ELSE m

Measure(m) ==
  Then(Then(Then(Then(Then(Then(SelectLoadPorts(m),
    LocateD), ConnectC), ConnectD), StoreRaw), RenormalizeTwoPort), StoreRenorm)

MeasureStep ==
  \E w \in inflight :
    /\ w.pc = "measure"
    /\ CommitWorker(Measure(Machine(w.ns)), w, "stuff")

WorkerStuffSStep ==
  \E w \in inflight :
    /\ w.pc = "stuff"
    /\ CommitWorker(StuffS(Machine(w.ns)), w, "copy_z0")

WorkerCopyZ0Step ==
  \E w \in inflight :
    /\ w.pc = "copy_z0"
    /\ CommitWorker(CopyZ0(Machine(w.ns)), w, "free")

\* the barrier: every pair is taken and every worker is done
Barrier ==
  /\ pc = "for"
  /\ Todo = {}
  /\ inflight = {}
  /\ pc' = "final"
  /\ UNCHANGED <<rng, glob, loc, measured, measured_renorm, heap, sweep, visited,
                 wlog, inflight>>

NextPar ==
  \/ DefineLoadsStep
  \/ PortCombosStep
  \/ StartCompositeStep
  \/ TakePair
  \/ MeasureStep
  \/ WorkerStuffSStep
  \/ WorkerCopyZ0Step
  \/ Barrier
  \/ FinalRenormalizeStep

SpecPar == Init /\ [][NextPar]_vars

\* ------------------------------------------------------------------ claims
\* the positions inside the loop body, and those at which two_port is the
\* 2-port of the pair (a, b) of the running iteration
BodyPcs == {"sel", "locate", "connect_c", "connect_d", "noise", "store_raw",
            "renorm", "store_renorm", "stuff", "copy_z0"}
TwoPortPcs == {"noise", "store_raw", "renorm", "store_renorm", "stuff", "copy_z0"}
AfterLoopPcs == {"final", "compare", "return"}

AllPairs == {ab \in Idx(NPorts) \X Idx(NPorts) : ab[1] < ab[2]}
PairOfKey(key) == CHOOSE ab \in Idx(NPorts) \X Idx(NPorts) : Key(ab[1], ab[2]) = key

LossyLoads(ns) == {k \in DOMAIN ns.loads : Lossy(ns.loads[k].gamma)}
ReflectiveLoads(ns) == {k \in DOMAIN ns.loads : FullyReflective(ns.loads[k].gamma)}

RECURSIVE SumCounts(_, _)
SumCounts(wl, S) ==
  IF S = {} THEN 0
  ELSE LET ev == CHOOSE x \in S : TRUE IN wl[ev] + SumCounts(wl, S \ {ev})

\* how often the cell was written, and by which pairs
Writes(cell) == SumCounts(wlog, {ev \in DOMAIN wlog : ev.cell = cell})
Writers(cell) == {ev.pair : ev \in {x \in DOMAIN wlog : x.cell = cell}}

\* C1: a composition without noise of a dut referenced at 50, with at least
\* 3 loads of |Gamma| < 1, ends with a composite whose scattering matrix is
\* the dut's at every frequency and every entry.
Accurate(ns) ==
  (Cardinality(LossyLoads(ns)) >= 3 /\ ns.dut.z0 = fix_z0_shape(SystemZ0, NPorts))
    => \A f \in Freqs : \A i, j \in Idx(NPorts) :
         heap[ns.composite].s[f][i][j] = ns.dut.s[f][i][j]

C1_EndToEndAccuracy ==
  /\ pc = "compare" => Accurate(glob)
  /\ (pc = "return" /\ ~ loc.noise) => Accurate(loc)

C1_Witness ==
  /\ pc = "compare"
  /\ Cardinality(LossyLoads(glob)) >= 3
  /\ Cardinality(DOMAIN wlog) = 36
  /\ heap[glob.composite].s = glob.dut.s
  /\ heap[glob.composite].s # match(NPorts).s

\* C2: in every sub-measurement of a pair (a, b) each port k outside {a, b}
\* is terminated by loads[k] and by no other load, and a and b are not
\* terminated; this holds of the 2-port in hand and of every stored raw
\* measurement.
C2_ConsistentTermination ==
  /\ \A k \in DOMAIN Cur.loads : Cur.loads[k].id = k
  /\ pc \in TwoPortPcs =>
       heap[Cur.two_port].term = {<<k, k>> : k \in Idx(NPorts) \ {Cur.a, Cur.b}}
  /\ \A key \in DOMAIN measured :
       heap[measured[key]].term =
         {<<k, k>> : k \in Idx(NPorts) \ {PairOfKey(key)[1], PairOfKey(key)[2]}}

C2_Witness ==
  /\ pc = "store_raw"
  /\ Cur.a = 1 /\ Cur.b = 2
  /\ heap[Cur.two_port].term = {<<0, 0>>, <<3, 3>>}

\* C3: the loop takes exactly the pairs (a, b), 0 <= a < b < n, each once
\* and in lexicographic order, n(n-1)/2 = 6 of them, and then stops.
LexLess(x, y) == x[1] < y[1] \/ (x[1] = y[1] /\ x[2] < y[2])

C3_PairEnumeration ==
  /\ \A i \in 1..Len(visited) : visited[i] \in AllPairs
  /\ \A i, j \in 1..Len(visited) : i < j => LexLess(visited[i], visited[j])
  /\ pc \in BodyPcs => <<Cur.a, Cur.b>> = visited[Len(visited)]
  /\ pc \in AfterLoopPcs =>
       /\ Len(visited) = (NPorts * (NPorts - 1)) \div 2
       /\ {visited[i] : i \in 1..Len(visited)} = AllPairs

C3_Witness ==
  /\ pc = "final"
  /\ visited = <<<<0, 1>>, <<0, 2>>, <<0, 3>>, <<1, 2>>, <<1, 3>>, <<2, 3>>>>

\* C4 as claimed: the writes of two different pairs never target the same
\* cell of the composite (neither an s entry nor a z0 slot).
C4_DisjointWrites ==
  \A e1, e2 \in DOMAIN wlog : e1.cell = e2.cell => e1.pair = e2.pair

\* C4 as amended: a pair writes only the cells of its own two ports; two
\* different pairs write the same cell only if they share a port k, and then
\* the cell is the diagonal s entry (k, k) or the z0 slot k.
C4_AliasOnlyOnSharedPort ==
  /\ \A ev \in DOMAIN wlog :
       {ev.cell[2], ev.cell[3]} \subseteq {ev.pair[1], ev.pair[2]}
  /\ \A e1, e2 \in DOMAIN wlog :
       (e1.cell = e2.cell /\ e1.pair # e2.pair) =>
          \E k \in Idx(NPorts) :
             /\ k \in {e1.pair[1], e1.pair[2]} \cap {e2.pair[1], e2.pair[2]}
             /\ e1.cell \in {<<"s", k, k>>, <<"z0", k, k>>}

C4_Witness ==
  \E w1, w2 \in inflight :
    /\ w1 # w2
    /\ w1.pc = "copy_z0" /\ w2.pc = "copy_z0"
    /\ \E k \in Idx(NPorts) :
         /\ k \in {w1.ns.a, w1.ns.b} \cap {w2.ns.a, w2.ns.b}
         /\ {<<w1.ns.a, w1.ns.b>>, <<w2.ns.a, w2.ns.b>>} \subseteq Writers(<<"s", k, k>>)

\* C5: over one full composition of the 4-port each diagonal s entry (k, k)
\* is written three times, once by each pair that contains k, each
\* off-diagonal entry once: 24 writes into 16 entries.
C5_RedundantWrites ==
  pc \in AfterLoopPcs =>
    /\ \A i, j \in Idx(NPorts) : Writes(<<"s", i, j>>) = IF i = j THEN 3 ELSE 1
    /\ \A k \in Idx(NPorts) :
         Writers(<<"s", k, k>>) = {ab \in AllPairs : k \in {ab[1], ab[2]}}
    /\ SumCounts(wlog, {ev \in DOMAIN wlog : ev.cell[1] = "s"}) = 24

C5_Witness ==
  /\ pc = "final"
  /\ Writes(<<"s", 0, 0>>) = 3
  /\ Writes(<<"s", 0, 1>>) = 1
  /\ Writers(<<"s", 3, 3>>) = {<<0, 3>>, <<1, 3>>, <<2, 3>>}

\* C6: in every composition the notebook runs, no more than one of the
\* loads has |Gamma| = 1.
C6_AtMostOneReflective ==
  /\ Cardinality(ReflectiveLoads(glob)) <= 1
  /\ Cardinality(ReflectiveLoads(loc)) <= 1

\* C7: a call of tippits changes nothing its caller can see: the global
\* names, the dicts measured and measured_renorm, and the objects they refer
\* to are after every step of the call what they were before it.
CallerView ==
  [glob            |-> glob,
   measured        |-> [key \in DOMAIN measured |-> heap[measured[key]]],
   measured_renorm |-> [key \in DOMAIN measured_renorm |-> heap[measured_renorm[key]]],
   composite       |-> heap[glob.composite],
   two_port        |-> heap[glob.two_port]]

C7_ExclusiveAccumulator ==
  [][(loc.active /\ loc'.active) => CallerView' = CallerView]_vars

\* C8: with c < d the ports outside the pair, the index e designates dut
\* port d in the 3-port left when c is terminated, and the network left after
\* both terminations has 2 ports: port 0 is dut port a, port 1 is dut port b.
C8_PortRenumbering ==
  /\ pc \in (BodyPcs \ {"sel"}) =>
       /\ Cur.c < Cur.d
       /\ {Cur.c, Cur.d} = Idx(NPorts) \ {Cur.a, Cur.b}
  /\ pc = "connect_d" =>
       /\ Cur.three_port.nports = 3
       /\ Cur.e \in Idx(3)
       /\ Cur.three_port.orig[Cur.e] = Cur.d
  /\ pc \in TwoPortPcs =>
       /\ heap[Cur.two_port].nports = 2
       /\ heap[Cur.two_port].orig[0] = Cur.a
       /\ heap[Cur.two_port].orig[1] = Cur.b

C8_Witness ==
  /\ pc = "store_raw"
  /\ Cur.a = 0 /\ Cur.b = 2 /\ Cur.c = 1 /\ Cur.d = 3 /\ Cur.e = 2
  /\ heap[Cur.two_port].orig[1] = 2

\* C9: when the final renormalization is applied every pair has been
\* written and every z0 slot k of the composite holds the impedance of load
\* k, none the matched network's, in whatever order the pairs were
\* processed; after it every slot holds system_z0.
LoadImpedance(ns, f, k) == NetworkZ(ns.loads[k])[f][0][0]

C9_CompositeZ0 ==
  /\ pc = "final" =>
       /\ Complete = AllPairs
       /\ inflight = {}
       /\ \A f \in Freqs : \A k \in Idx(NPorts) :
            /\ heap[glob.composite].z0[f][k] = LoadImpedance(glob, f, k)
            /\ heap[glob.composite].z0[f][k] # SystemZ0
  /\ pc = "compare" =>
       \A f \in Freqs : \A k \in Idx(NPorts) : heap[glob.composite].z0[f][k] = SystemZ0

C9_Witness ==
  /\ pc = "final"
  /\ Complete = AllPairs
  /\ \A k \in Idx(NPorts) : heap[glob.composite].z0[1][k] = LoadImpedance(glob, 1, k)

\* C10: the raw measurement stored for a pair is a copy taken before the
\* 2-port is renormalized in place: no later step changes it until the same
\* key is stored again, it stays referenced to the dut's z0, and it is an
\* object distinct from the 2-port, from the composite and from the
\* renormalized measurement stored for the pair, whose z0 differs from its own.
RawKept ==
  \A key \in (DOMAIN measured) \cap (DOMAIN measured') :
    \/ pc = "store_raw" /\ Key(Cur.a, Cur.b) = key
    \/ heap'[measured'[key]] = heap[measured[key]]

RawDistinct ==
  \A key \in DOMAIN measured :
    /\ heap[measured[key]].z0 = fix_z0_shape(SystemZ0, 2)
    /\ measured[key] \notin {glob.two_port, loc.two_port, glob.composite, loc.composite}
    /\ key \in DOMAIN measured_renorm =>
         /\ measured_renorm[key] # measured[key]
         /\ heap[measured_renorm[key]].z0 # heap[measured[key]].z0

C10_RawSnapshot == [][RawKept /\ RawDistinct']_vars

C10_Witness ==
  /\ pc = "store_renorm"
  /\ Key(Cur.a, Cur.b) \in DOMAIN measured
  /\ heap[measured[Key(Cur.a, Cur.b)]].z0 = fix_z0_shape(SystemZ0, 2)
  /\ heap[Cur.two_port].z0 # fix_z0_shape(SystemZ0, 2)
  /\ heap[Cur.two_port].s # heap[measured[Key(Cur.a, Cur.b)]].s
====
